---- MODULE Spec2Model ----
(***************************************************************************)
(* CloudWatch Logs LiveTail: the session entity (liveTailSession.ts), the  *)
(* session registry (LiveTailSessionRegistry), the tailLogGroup command    *)
(* with its tab-change / "Stop Tailing" teardown, and the response-stream  *)
(* pipeline that formats log events and writes them to a bounded text      *)
(* document.                                                               *)
(*                                                                         *)
(* Text is a sequence of one-character strings, so that line counting,     *)
(* newline termination and range deletion are computed, not assumed.       *)
(* An epoch-millisecond timestamp t is kept as [s |-> t \div 1000,         *)
(* ms |-> t % 1000]: 876830400000 does not fit TLC's 32-bit integers.      *)
(***************************************************************************)
EXTENDS Integers, Sequences, FiniteSets, TLC

(***************************************************************************)
(* Bounds of the model.                                                    *)
(***************************************************************************)
MaxSessions == 2
MaxBatch == 2
MaxLinesBound == 3
MaxClock == 2
MaxTabs == 2
MaxOps == 4
MaxViews == 2
ViewHeight == 2

Sessions == 1..MaxSessions
Keys == {"lt:r:g1", "lt:r:g2"}
Views == 1..MaxViews
None == 0
Undefined == -1

(***************************************************************************)
(* Text helpers.                                                           *)
(***************************************************************************)
NL == "\n"
TAB == "\t"

RECURSIVE Concat(_)
Concat(ss) == IF ss = <<>> THEN <<>> ELSE Head(ss) \o Concat(Tail(ss))

\* The positions of the line breaks of a text, and their number.
LineBreaks(text) == {i \in 1..Len(text) : text[i] = NL}

CountNL(text) == Cardinality(LineBreaks(text))

\* vscode.TextDocument.lineCount: one more than the number of line breaks
\* (an empty document has one, empty, line).
lineCount(text) == 1 + CountNL(text)

\* Offset (number of characters before it) of Position(line, 0), validated
\* against the document the way the editor validates a position: a line
\* past the last one is clamped to the end of the document.
OffsetOfLine(text, line) ==
    IF line <= 0 THEN 0
    ELSE IF CountNL(text) < line THEN Len(text)
    ELSE CHOOSE i \in LineBreaks(text) :
             Cardinality({j \in LineBreaks(text) : j <= i}) = line

DropFirst(text, n) == SubSeq(text, n + 1, Len(text))

(***************************************************************************)
(* formatLogEvent                                                          *)
(***************************************************************************)
Digits == <<"0", "1", "2", "3", "4", "5", "6", "7", "8", "9">>
TwoDigits(n) == <<Digits[(n \div 10) + 1], Digits[(n % 10) + 1]>>

\* new Date(ts).toLocaleTimeString('en', {timeStyle: 'medium', hour12: false,
\* timeZone: 'UTC'}): HH:MM:SS of the UTC time of day.
toLocaleTimeString(ts) ==
    LET sod == ts.s % 86400
    IN  TwoDigits(sod \div 3600) \o <<":">>
        \o TwoDigits((sod % 3600) \div 60) \o <<":">>
        \o TwoDigits(sod % 60)

\* An optional field is <<>> when undefined and <<v>> when it has the value v.
\* JavaScript truthiness of the two optional fields of a log event:
\* !timestamp is true for undefined and for 0, !message for undefined and ''.
NoTimestamp(logEvent) ==
    logEvent.timestamp = <<>> \/ logEvent.timestamp[1] = [s |-> 0, ms |-> 0]
NoMessage(logEvent) ==
    logEvent.message = <<>> \/ logEvent.message[1] = <<>>

formatLogEvent(logEvent) ==
    IF NoTimestamp(logEvent) \/ NoMessage(logEvent) THEN <<>>
    ELSE LET line == toLocaleTimeString(logEvent.timestamp[1]) \o <<TAB>>
                     \o logEvent.message[1]
         IN  IF line[Len(line)] # NL THEN Append(line, NL) ELSE line

(***************************************************************************)
(* The document mutator.                                                   *)
(***************************************************************************)
\* numLinesToTrim of trimOldestLines.
trimOldestLines(numNewLines, text, maxLines) ==
    lineCount(text) + numNewLines - maxLines

\* vscode.workspace.applyEdit of one WorkspaceEdit holding the inserts (all at
\* Position(lineCount, 0), which validates to the end of the document, kept
\* in the order they were added) and, when trimLines > 0, the deletion of
\* Range(Position(0, 0), Position(trimLines, 0)).  Ranges are in the
\* coordinates of the document before the edit.
applyEdit(text, inserts, trimLines) ==
    DropFirst(text, OffsetOfLine(text, trimLines)) \o Concat(inserts)

updateTextDocumentWithNewLogEvents_NoTrim(formattedLogEvents, text, maxLines) ==
    applyEdit(text, formattedLogEvents, 0)

updateTextDocumentWithNewLogEvents(formattedLogEvents, text, maxLines) ==
    IF lineCount(text) + Len(formattedLogEvents) > maxLines
    THEN applyEdit(text, formattedLogEvents,
                   trimOldestLines(Len(formattedLogEvents), text, maxLines))
    ELSE applyEdit(text, formattedLogEvents, 0)

clearDocument_FirstLine(text) == DropFirst(text, OffsetOfLine(text, 1))

\* clearDocument: delete Range(Position(0, 0), Position(lineCount, 0)).
clearDocument(text) == DropFirst(text, OffsetOfLine(text, lineCount(text)))

(***************************************************************************)
(* Transport frames (StartLiveTailResponseStream) and log events.          *)
(***************************************************************************)
LogEvent(sec, msg) == [timestamp |-> <<[s |-> sec, ms |-> 0]>>, message |-> <<msg>>]
Event1 == LogEvent(876830400, <<"m", "1">>)
Event2 == LogEvent(876830402, <<"m", "2">>)
Event3 == LogEvent(876830403, <<"m", "3">>)
EventNoMessage == [timestamp |-> <<[s |-> 876830400, ms |-> 0]>>, message |-> <<>>]
EventNoTimestamp == [timestamp |-> <<>>, message |-> <<<<"m", "1">>>>]
\* A record stamped with the epoch itself: timestamp 0, 1970-01-01T00:00:00Z.
EventEpoch == LogEvent(0, <<"m", "1">>)
LogEvents == {Event1, Event2, Event3, EventNoMessage, EventNoTimestamp, EventEpoch}

Batches == UNION {[1..n -> LogEvents] : n \in 0..MaxBatch}

SessionStart == [type |-> "sessionStart", sessionResults |-> <<>>]
UnknownFrame == [type |-> "unknown", sessionResults |-> <<>>]
SessionUpdate(batch) == [type |-> "sessionUpdate", sessionResults |-> batch]
Frames == {SessionStart, UnknownFrame} \cup {SessionUpdate(b) : b \in Batches}
\* The frames a session of the coordinator specification receives.
CoordinatorFrames == {SessionStart, SessionUpdate(<<Event1>>)}

(***************************************************************************)
(* State.                                                                  *)
(***************************************************************************)
VARIABLES
    now,               \* Date.now()
    liveTailMaxEvents, \* the setting read by the LiveTailSession constructor
    pc,                \* per tailLogGroup invocation: where it is suspended
    uri,               \* per session: its uri (resource key), "" before construction
    registry,          \* LiveTailSessionRegistry: key -> session or None
    startTime,         \* LiveTailSession.startTime
    endTime,           \* LiveTailSession.endTime
    aborted,           \* liveTailClient.abortController.signal.aborted
    startCount,        \* calls of startLiveTailSession
    stopCount,         \* calls of stopLiveTailSession (each disposes the status
                       \* bar items, aborts and destroys the client)
    timerOn,           \* the interval of startTimer is scheduled
    tabCallback,       \* the onDidChangeTabs listener of the session is registered
    dialog,            \* the "Stop Tailing" information message of the session
    tabs,              \* per key: number of tabs showing the document
    docOpen,           \* per key: the text document has been opened
    docText,           \* per key: the text of the document
    startOutcome,      \* history: how the awaited start call ended
    duplicate,         \* history: the invocation found its key in the registry
    sawNoTab,          \* history: the session's listener ran with no tab open
    firstEndTime,      \* history: endTime as set by the first stop call
    e2e,               \* history: progress through the end-to-end stream
    regLog,            \* history: calls made on the registry by RegistrySpec
    views,             \* the text editors that may show the document of DocKey
    configuration,     \* per session: <<the configuration it was built from>>, or <<>>
    caught,            \* history: the catch block of the session's pull loop ran
    queue,             \* frames the transport delivered that the loop has not pulled
    editing,           \* <<the update the loop awaits the edit of>>, or <<>>
    command,           \* per session: <<the StartLiveTailCommand it sent>>, or <<>>
    submenu,           \* the LogStreamFilterSubmenu the user is prompted with
    uriRegistry        \* the registry variant whose Map is keyed by Uri object

vars == <<now, liveTailMaxEvents, pc, uri, registry, startTime, endTime, aborted,
          startCount, stopCount, timerOn, tabCallback, dialog, tabs, docOpen,
          docText, startOutcome, duplicate, sawNoTab, firstEndTime, e2e, regLog,
          views, configuration, caught, queue, editing, command, submenu,
          uriRegistry>>

\* The part of the state the handlers read and write, as one record, so that
\* a handler is a function from state to state and handlers compose.
Cur ==
    [pc |-> pc, uri |-> uri, registry |-> registry, startTime |-> startTime,
     endTime |-> endTime, aborted |-> aborted, startCount |-> startCount,
     stopCount |-> stopCount, timerOn |-> timerOn, tabCallback |-> tabCallback,
     dialog |-> dialog, tabs |-> tabs, docOpen |-> docOpen, docText |-> docText,
     startOutcome |-> startOutcome, duplicate |-> duplicate, sawNoTab |-> sawNoTab,
     firstEndTime |-> firstEndTime]

Commit(S) ==
    /\ pc' = S.pc
    /\ uri' = S.uri
    /\ registry' = S.registry
    /\ startTime' = S.startTime
    /\ endTime' = S.endTime
    /\ aborted' = S.aborted
    /\ startCount' = S.startCount
    /\ stopCount' = S.stopCount
    /\ timerOn' = S.timerOn
    /\ tabCallback' = S.tabCallback
    /\ dialog' = S.dialog
    /\ tabs' = S.tabs
    /\ docOpen' = S.docOpen
    /\ docText' = S.docText
    /\ startOutcome' = S.startOutcome
    /\ duplicate' = S.duplicate
    /\ sawNoTab' = S.sawNoTab
    /\ firstEndTime' = S.firstEndTime

(***************************************************************************)
(* LiveTailSession                                                         *)
(***************************************************************************)
maxLines(S, s) == liveTailMaxEvents

\* startLiveTailSession up to the send call; the awaited outcome is a later step.
startLiveTailSession(S, s, t) ==
    [S EXCEPT !.startTime[s] = t, !.endTime[s] = Undefined,
              !.startCount[s] = @ + 1, !.startOutcome[s] = "pending"]

stopLiveTailSession_SharedAbort(S, s, t) ==
    [S EXCEPT !.endTime[s] = t,
              !.aborted = [x \in Sessions |-> TRUE],
              !.stopCount[s] = @ + 1,
              !.firstEndTime[s] = IF S.stopCount[s] = 0 THEN t ELSE @]

stopLiveTailSession(S, s, t) ==
    [S EXCEPT !.endTime[s] = t,
              !.aborted[s] = TRUE,
              !.stopCount[s] = @ + 1,
              !.firstEndTime[s] = IF S.stopCount[s] = 0 THEN t ELSE @]

getLiveTailSessionDuration(S, s, t) ==
    IF S.startTime[s] = Undefined THEN 0
    ELSE IF S.endTime[s] = Undefined THEN t - S.startTime[s]
    ELSE S.endTime[s] - S.startTime[s]

(***************************************************************************)
(* LiveTailSessionRegistry (keyed by uri.toString())                       *)
(***************************************************************************)
doesRegistryContainLiveTailSession_Never(S, k) == FALSE

doesRegistryContainLiveTailSession(S, k) == S.registry[k] # None

\* registerLiveTailSession throws the duplicate error exactly when this holds.
registerThrows(S, s) == doesRegistryContainLiveTailSession(S, S.uri[s])

registerLiveTailSession_Overwrite(S, s) == [S EXCEPT !.registry[S.uri[s]] = s]

registerLiveTailSession(S, s) ==
    IF registerThrows(S, s) THEN S ELSE [S EXCEPT !.registry[S.uri[s]] = s]

\* getLiveTailSessionFromUri returns the session, and throws when it is None.
getLiveTailSessionFromUri(S, k) == S.registry[k]

lookupThrows_Never(S, k) == FALSE

\* getLiveTailSessionFromUri throws its 'No LiveTail session registered'
\* error exactly when this holds.
lookupThrows(S, k) == S.registry[k] = None

removeLiveTailSessionFromRegistry(S, k) == [S EXCEPT !.registry[k] = None]

(***************************************************************************)
(* tailLogGroup and its handlers                                           *)
(***************************************************************************)
closeSession_NoStop(S, k, t) ==
    IF getLiveTailSessionFromUri(S, k) = None THEN S
    ELSE removeLiveTailSessionFromRegistry(S, k)

closeSession_NoRemove(S, k, t) ==
    IF getLiveTailSessionFromUri(S, k) = None THEN S
    ELSE stopLiveTailSession(S, getLiveTailSessionFromUri(S, k), t)

\* getLiveTailSessionFromUri throws, and so closeSession rejects, exactly
\* when this holds.
closeSessionThrows(S, k) == getLiveTailSessionFromUri(S, k) = None

\* closeSession is an async function: when the lookup throws, the call
\* yields a rejected promise nobody awaits, and its caller carries on.
closeSession(S, k, t) ==
    IF closeSessionThrows(S, k) THEN S
    ELSE removeLiveTailSessionFromRegistry(
             stopLiveTailSession(S, getLiveTailSessionFromUri(S, k), t), k)

isLiveTailSessionOpenInAnyTab_Never(S, s) == FALSE

isLiveTailSessionOpenInAnyTab(S, s) == S.tabs[S.uri[s]] > 0

\* The listener registerTabChangeCallback installs for session s.
tabChangeCallback(S, s, t) ==
    IF isLiveTailSessionOpenInAnyTab(S, s) THEN S
    ELSE [closeSession(S, S.uri[s], t) EXCEPT
              !.timerOn[s] = FALSE,
              !.docText[S.uri[s]] = clearDocument(@),
              !.sawNoTab[s] = TRUE]

\* vscode.window.tabGroups.onDidChangeTabs fires: the listeners run in the
\* order they were registered (sessions are numbered in that order).
RECURSIVE onDidChangeTabsFrom(_, _, _)
onDidChangeTabsFrom(S, s, t) ==
    IF s > MaxSessions THEN S
    ELSE onDidChangeTabsFrom(
             IF S.tabCallback[s] THEN tabChangeCallback(S, s, t) ELSE S, s + 1, t)

onDidChangeTabs(S, t) == onDidChangeTabsFrom(S, 1, t)

tailLogGroupBegin_NoCheck(S, i, k) ==
    LET S0 == [S EXCEPT !.uri[i] = k, !.duplicate[i] = (S.registry[k] # None)]
    IN  IF registerThrows(S0, i)
        THEN [S0 EXCEPT !.pc[i] = "threw"]
        ELSE [registerLiveTailSession(S0, i) EXCEPT !.pc[i] = "opening"]

\* tailLogGroup from the wizard's answer to its first suspension: construct
\* the session, then short-circuit on a registered key or register it.
tailLogGroupBegin(S, i, k) ==
    LET S0 == [S EXCEPT !.uri[i] = k, !.duplicate[i] = (S.registry[k] # None)]
    IN  IF doesRegistryContainLiveTailSession(S0, k)
        THEN [S0 EXCEPT !.pc[i] = "reopening"]
        ELSE IF registerThrows(S0, i)
        THEN [S0 EXCEPT !.pc[i] = "threw"]
        ELSE [registerLiveTailSession(S0, i) EXCEPT !.pc[i] = "opening"]

\* prepareDocument after openTextDocument resolved: clearDocument, then
\* showTextDocument is awaited.
prepareDocumentOpened(S, i) ==
    [S EXCEPT !.docOpen[S.uri[i]] = TRUE,
              !.docText[S.uri[i]] = clearDocument(@),
              !.pc[i] = IF S.pc[i] = "opening" THEN "showing" ELSE "reshowing"]

\* showTextDocument resolved: the document is shown in a tab (a new one if
\* none shows it), which is a tab change.
showTextDocument(S, i, t) ==
    onDidChangeTabs([S EXCEPT !.tabs[S.uri[i]] = IF @ = 0 THEN 1 ELSE @], t)

\* tailLogGroup from prepareDocument's return to the awaited start call:
\* startTimer, registerTabChangeCallback, startLiveTailSession.
tailLogGroupStart(S, i, t) ==
    startLiveTailSession(
        [S EXCEPT !.timerOn[i] = TRUE, !.tabCallback[i] = TRUE, !.pc[i] = "starting"],
        i, t)

startResolved(S, i) ==
    [S EXCEPT !.startOutcome[i] = "resolved", !.dialog[i] = "shown",
              !.pc[i] = "streaming"]

\* The response has no responseStream: handleLiveTailResponse throws before
\* its try block, after the dialog was displayed.
startResolvedNoStream(S, i) ==
    [S EXCEPT !.startOutcome[i] = "resolved", !.dialog[i] = "shown",
              !.pc[i] = "threw"]

startRejected_Swallowed(S, i) ==
    [S EXCEPT !.startOutcome[i] = "rejected", !.pc[i] = "returned"]

\* The awaited start call rejects: tailLogGroup has no handler around it.
startRejected(S, i) ==
    [S EXCEPT !.startOutcome[i] = "rejected", !.pc[i] = "threw"]

stopTailingPressed_KeepTimer(S, i, t) ==
    [closeSession(S, S.uri[i], t) EXCEPT !.dialog[i] = "closed"]

\* The "Stop Tailing" item of displayTailingSessionDialogueWindow.
stopTailingPressed(S, i, t) ==
    [closeSession(S, S.uri[i], t) EXCEPT !.timerOn[i] = FALSE, !.dialog[i] = "closed"]

(***************************************************************************)
(* handleLiveTailResponse: one iteration of the for-await loop.            *)
(***************************************************************************)
formattedLogEvents(frame) ==
    [j \in 1..Len(frame.sessionResults) |-> formatLogEvent(frame.sessionResults[j])]

(***************************************************************************)
(* Scrolling.  A view is a text editor: whether it is visible and shows    *)
(* the document, the lines top..bottom of its visibleRanges[0], and the    *)
(* line the last handled frame asked it to reveal (-1: none).              *)
(***************************************************************************)
HiddenView == [visible |-> FALSE, top |-> 0, bottom |-> 0, revealed |-> -1]

shouldScrollTextEditor_Always(text, view) == TRUE

\* visibleRange.contains(new Position(lineCount - 1, 0))
shouldScrollTextEditor(text, view) ==
    view.top <= lineCount(text) - 1 /\ lineCount(text) - 1 <= view.bottom

getVisibleEditorsForSession(vs) == {v \in Views : vs[v].visible}

getTextEditorsToScroll(text, vs) ==
    {v \in getVisibleEditorsForSession(vs) : shouldScrollTextEditor(text, vs[v])}

\* The line of the range scrollTextEditorToBottom reveals.
scrollTextEditorToBottom(text) ==
    IF lineCount(text) - 2 > 0 THEN lineCount(text) - 2 ELSE 0

\* What the editor does is not in the program.  An editor shows ViewHeight
\* lines from its top line, or fewer when the document ends before; after
\* an edit it keeps its top line if the document still has it; revealRange
\* leaves it at some position where the line is visible.
bottomLine(text, top) ==
    IF top + ViewHeight - 1 > lineCount(text) - 1 THEN lineCount(text) - 1
    ELSE top + ViewHeight - 1

afterEdit(text, view) ==
    LET top == IF view.top > lineCount(text) - 1 THEN lineCount(text) - 1
               ELSE view.top
    IN  [view EXCEPT !.top = top, !.bottom = bottomLine(text, top), !.revealed = -1]

revealRange(text, view, line) ==
    {[visible |-> view.visible, top |-> t, bottom |-> bottomLine(text, t),
      revealed |-> line] :
        t \in (IF line - ViewHeight + 1 > 0 THEN line - ViewHeight + 1 ELSE 0)..line}

\* The ways to pick, for each of the views 1..n, one of its outcomes per[v].
RECURSIVE eachView(_, _)
eachView(per, n) ==
    IF n = 0 THEN {<<>>}
    ELSE LET rest == eachView(per, n - 1)
             outcomes == per[n]
         IN  {Append(f, x) : f \in rest, x \in outcomes}

\* The outcomes for view v of one iteration of the loop of
\* handleLiveTailResponse: text is the document before the frame, text2
\* after it.  The editors to scroll are chosen before the update and
\* scrolled after it.
ViewOutcomes(vs, text, text2, frame, v) ==
    IF frame.type = "sessionUpdate" /\ Len(formattedLogEvents(frame)) # 0
    THEN IF v \in getTextEditorsToScroll(text, vs)
         THEN revealRange(text2, afterEdit(text2, vs[v]),
                          scrollTextEditorToBottom(text2))
         ELSE {afterEdit(text2, vs[v])}
    ELSE {[vs[v] EXCEPT !.revealed = -1]}

ViewsAfterFrame(vs, text, text2, frame) ==
    eachView([v \in Views |-> ViewOutcomes(vs, text, text2, frame, v)], MaxViews)

handleFrame_StopsOnOther(S, i, frame) ==
    IF frame.type = "sessionUpdate"
    THEN IF Len(formattedLogEvents(frame)) # 0
         THEN [S EXCEPT !.docText[S.uri[i]] =
                   updateTextDocumentWithNewLogEvents(
                       formattedLogEvents(frame), @, maxLines(S, i))]
         ELSE S
    ELSE [S EXCEPT !.pc[i] = "returned"]

handleFrame(S, i, frame) ==
    IF frame.type = "sessionStart" THEN S
    ELSE IF frame.type = "sessionUpdate"
    THEN IF Len(formattedLogEvents(frame)) # 0
         THEN [S EXCEPT !.docText[S.uri[i]] =
                   updateTextDocumentWithNewLogEvents(
                       formattedLogEvents(frame), @, maxLines(S, i))]
         ELSE S
    ELSE S

(***************************************************************************)
(* LogStreamFilterSubmenu: the filter types, the validation of a typed     *)
(* prefix, and the submenu as constructed.                                 *)
(***************************************************************************)
MaxInput == 3

MENU == <<"m", "e", "n", "u">>
PREFIX == <<"p", "r", "e", "f", "i", "x">>
SPECIFIC == <<"s", "p", "e", "c", "i", "f", "i", "c">>
ALL == <<"a", "l", "l">>

PrefixLengthLimit == 512

Repeat(c, n) == [k \in 1..n |-> c]

\* What the user may type in the prefix box: every short string over two
\* letters, ':' and '*', and strings at and beyond the length limit.
PrefixInputs ==
    UNION {[1..n -> {"a", "b", ":", "*"}] : n \in 0..MaxInput}
    \cup {Repeat("a", PrefixLengthLimit),
          Repeat("a", PrefixLengthLimit - 1) \o <<":">>,
          Repeat("a", PrefixLengthLimit + 1),
          Repeat("a", PrefixLengthLimit) \o <<"*">>}

\* new RegExp('[^:*]*').test(input): the pattern has no anchors, so the
\* test looks for a run input[i..j] of characters other than ':' and '*',
\* starting anywhere, the empty run (j = i - 1) included.
logStreamPrefixRegEx(input) ==
    \E i \in 1..(Len(input) + 1) :
        \E j \in (i - 1)..Len(input) :
            \A k \in i..j : input[k] \notin {":", "*"}

\* The validation message of the input, <<>> when the input is accepted.
validateLogStreamPrefix(input) ==
    IF Len(input) > PrefixLengthLimit
    THEN <<"LogStream prefix cannot be longer than 512 characters">>
    ELSE IF ~logStreamPrefixRegEx(input)
         THEN <<"LogStream prefix must match pattern: [^:*]*">>
         ELSE <<>>

\* The registry keyed by Uri object, as constructed: an empty Map, and no
\* call made on it yet (last holds, in <<..>>, the last call and its outcome).
NewUriRegistry == [map |-> {}, last |-> <<>>]

\* The submenu as constructed: currentState is MENU, the prefix box is
\* empty and shows no message, promptUser has returned nothing, and the
\* menu prompt has resolved to nothing yet (menuAnswer holds, in <<..>>,
\* what the menu prompt last resolved to).
NewSubmenu ==
    [currentState |-> MENU, value |-> <<>>, validationMessage |-> <<>>,
     response |-> <<>>, menuAnswer |-> <<>>]

(***************************************************************************)
(* The coordinator specification: tailLogGroup invocations, the user, the  *)
(* transport and the clock.                                                *)
(***************************************************************************)
E2EStream ==
    <<SessionStart, SessionUpdate(<<Event1>>), SessionUpdate(<<Event2>>),
      SessionUpdate(<<Event3>>)>>

Fresh ==
    /\ now = 0
    /\ pc = [s \in Sessions |-> "idle"]
    /\ uri = [s \in Sessions |-> ""]
    /\ registry = [k \in Keys |-> None]
    /\ startTime = [s \in Sessions |-> Undefined]
    /\ endTime = [s \in Sessions |-> Undefined]
    /\ aborted = [s \in Sessions |-> FALSE]
    /\ startCount = [s \in Sessions |-> 0]
    /\ stopCount = [s \in Sessions |-> 0]
    /\ timerOn = [s \in Sessions |-> FALSE]
    /\ tabCallback = [s \in Sessions |-> FALSE]
    /\ dialog = [s \in Sessions |-> "none"]
    /\ tabs = [k \in Keys |-> 0]
    /\ docOpen = [k \in Keys |-> FALSE]
    /\ docText = [k \in Keys |-> <<>>]
    /\ startOutcome = [s \in Sessions |-> "none"]
    /\ duplicate = [s \in Sessions |-> FALSE]
    /\ sawNoTab = [s \in Sessions |-> FALSE]
    /\ firstEndTime = [s \in Sessions |-> Undefined]
    /\ e2e = 0
    /\ regLog = <<>>
    /\ configuration = [s \in Sessions |-> <<>>]
    /\ caught = [s \in Sessions |-> FALSE]
    /\ queue = <<>>
    /\ editing = <<>>
    /\ command = [s \in Sessions |-> <<>>]
    /\ submenu = NewSubmenu
    /\ uriRegistry = NewUriRegistry
    /\ views = [v \in Views |-> HiddenView]

Init ==
    /\ Fresh
    /\ liveTailMaxEvents = 1

Frame1 == UNCHANGED <<now, liveTailMaxEvents, e2e, regLog, views, configuration,
                      caught, queue, editing, command, submenu, uriRegistry>>

\* The wizard answers with a configuration whose uri is k.
TailLogGroup(i, k) ==
    /\ pc[i] = "idle"
    /\ \A j \in Sessions : j < i => pc[j] # "idle"
    /\ Commit(tailLogGroupBegin(Cur, i, k))
    /\ Frame1

\* The wizard is cancelled: tailLogGroup throws CancellationError.
WizardCancelled(i) ==
    /\ pc[i] = "idle"
    /\ \A j \in Sessions : j < i => pc[j] # "idle"
    /\ Commit([Cur EXCEPT !.pc[i] = "threw"])
    /\ Frame1

DocumentOpened(i) ==
    /\ pc[i] \in {"opening", "reopening"}
    /\ Commit(prepareDocumentOpened(Cur, i))
    /\ Frame1

DocumentShown(i) ==
    /\ pc[i] = "showing"
    /\ Commit(tailLogGroupStart(showTextDocument(Cur, i, now), i, now))
    /\ Frame1

\* The short-circuit path returns once the document is shown again.
DocumentShownAgain(i) ==
    /\ pc[i] = "reshowing"
    /\ Commit([showTextDocument(Cur, i, now) EXCEPT !.pc[i] = "returned"])
    /\ Frame1

\* An aborted signal makes the send reject.
StartResolves(i) ==
    /\ pc[i] = "starting"
    /\ ~aborted[i]
    /\ Commit(startResolved(Cur, i))
    /\ Frame1

StartResolvesWithoutStream(i) ==
    /\ pc[i] = "starting"
    /\ ~aborted[i]
    /\ Commit(startResolvedNoStream(Cur, i))
    /\ Frame1

StartRejects(i) ==
    /\ pc[i] = "starting"
    /\ Commit(startRejected(Cur, i))
    /\ Frame1

\* The transport yields a frame; an aborted call yields no more.
ReceiveFrame(i, frame) ==
    /\ pc[i] = "streaming"
    /\ ~aborted[i]
    /\ Commit(handleFrame(Cur, i, frame))
    /\ views' \in ViewsAfterFrame(views, docText[uri[i]],
                                  handleFrame(Cur, i, frame).docText[uri[i]], frame)
    /\ UNCHANGED <<now, liveTailMaxEvents, e2e, regLog, configuration,
                   caught, queue, editing, command, submenu, uriRegistry>>

\* The frame sequence ends (remote close) or iterating it throws (abort,
\* network failure): the loop's catch logs, and tailLogGroup returns.
StreamTerminates(i) ==
    /\ pc[i] = "streaming"
    /\ Commit([Cur EXCEPT !.pc[i] = "returned"])
    /\ Frame1

StopTailing(i) ==
    /\ dialog[i] = "shown"
    /\ Commit(stopTailingPressed(Cur, i, now))
    /\ Frame1

DismissDialog(i) ==
    /\ dialog[i] = "shown"
    /\ Commit([Cur EXCEPT !.dialog[i] = "dismissed"])
    /\ Frame1

CloseTab(k) ==
    /\ tabs[k] > 0
    /\ Commit(onDidChangeTabs([Cur EXCEPT !.tabs[k] = @ - 1], now))
    /\ Frame1

\* The user splits the editor: one more tab shows the document.
SplitTab(k) ==
    /\ tabs[k] > 0
    /\ tabs[k] < MaxTabs
    /\ Commit(onDidChangeTabs([Cur EXCEPT !.tabs[k] = @ + 1], now))
    /\ Frame1

\* Any other tab is created, closed or focused.
OtherTabChange ==
    /\ Commit(onDidChangeTabs(Cur, now))
    /\ Frame1

Tick ==
    /\ now < MaxClock
    /\ now' = now + 1
    /\ UNCHANGED <<liveTailMaxEvents, pc, uri, registry, startTime, endTime, aborted,
                   startCount, stopCount, timerOn, tabCallback, dialog, tabs,
                   docOpen, docText, startOutcome, duplicate, sawNoTab,
                   firstEndTime, e2e, regLog, views, configuration,
                   caught, queue, editing, command, submenu, uriRegistry>>

Next ==
    \/ \E i \in Sessions, k \in Keys : TailLogGroup(i, k)
    \/ \E i \in Sessions : WizardCancelled(i)
    \/ \E i \in Sessions : DocumentOpened(i)
    \/ \E i \in Sessions : DocumentShown(i)
    \/ \E i \in Sessions : DocumentShownAgain(i)
    \/ \E i \in Sessions : StartResolves(i)
    \/ \E i \in Sessions : StartResolvesWithoutStream(i)
    \/ \E i \in Sessions : StartRejects(i)
    \/ \E i \in Sessions, frame \in CoordinatorFrames : ReceiveFrame(i, frame)
    \/ \E i \in Sessions : StreamTerminates(i)
    \/ \E i \in Sessions : StopTailing(i)
    \/ \E i \in Sessions : DismissDialog(i)
    \/ \E k \in Keys : CloseTab(k)
    \/ \E k \in Keys : SplitTab(k)
    \/ OtherTabChange

Spec == Init /\ [][Next]_vars

(***************************************************************************)
(* Properties of the coordinator specification.                            *)
(***************************************************************************)
\* A session is live when startLiveTailSession was called on it and
\* stopLiveTailSession was not.
Live(s) == startCount[s] >= 1 /\ stopCount[s] = 0

\* C2: under any interleaving of tailing requests, "Stop Tailing" presses,
\* tab changes and stream terminations, no two distinct sessions with the
\* same uri are both started and not yet stopped.
C2_NoTwoLiveSessionsPerKey ==
    \A s1, s2 \in Sessions :
        (s1 # s2 /\ Live(s1) /\ Live(s2)) => uri[s1] # uri[s2]

\* A key is tailed a second time: its first session was started and
\* stopped, and its second session is live.
C2_Witness ==
    \E s1, s2 \in Sessions :
        /\ s1 # s2
        /\ uri[s1] = uri[s2]
        /\ startCount[s1] >= 1
        /\ stopCount[s1] >= 1
        /\ Live(s2)

\* C6: once the listener of a session has seen a tab change at which no
\* tab shows the session's document, the session is not in the registry and
\* stopLiveTailSession has been called on it exactly once, whatever tab
\* changes follow.
C6_TabCloseTeardown ==
    \A s \in Sessions :
        sawNoTab[s] => (registry[uri[s]] # s /\ stopCount[s] = 1)

\* A streaming session lost its last tab.
C6_Witness ==
    \E s \in Sessions :
        /\ sawNoTab[s]
        /\ startOutcome[s] = "resolved"
        /\ stopCount[s] = 1
        /\ tabs[uri[s]] = 0

\* C7: every step in which closeSession stops a session leaves that session
\* out of the registry, stopped exactly once, and with no interval of
\* startTimer scheduled for it.  The code does not keep this: see
\* C7_Counterexample.
C7_Counterexample ==
    [][\A s \in Sessions :
          stopCount'[s] > stopCount[s] =>
              (registry'[uri[s]] # s /\ stopCount'[s] = 1 /\ ~timerOn'[s])]_vars

C9_Counterexample ==
    \A i \in Sessions :
        startOutcome[i] = "rejected" =>
            (registry[uri[i]] # i /\ ~timerOn[i] /\ ~docOpen[uri[i]])

\* C10: an invocation of tailLogGroup that found its key in the registry
\* never calls startLiveTailSession, never throws, and none of its steps
\* changes what the registry maps the key to.
C10_DuplicateShortCircuit ==
    [][\A i \in Sessions :
          duplicate'[i] =>
              /\ startCount'[i] = 0
              /\ pc'[i] # "threw"
              /\ (pc'[i] # pc[i] => registry'[uri'[i]] = registry[uri'[i]])]_vars

\* A duplicate request returned while the session registered under its key
\* is still registered and was started.
C10_Witness ==
    \E i \in Sessions :
        /\ duplicate[i]
        /\ pc[i] = "returned"
        /\ startCount[i] = 0
        /\ registry[uri[i]] \notin {None, i}
        /\ startCount[registry[uri[i]]] = 1

(***************************************************************************)
(* The pipeline specification: one session whose start call resolved       *)
(* consumes an arbitrary frame sequence (handleLiveTailResponse), for      *)
(* every line limit up to MaxLinesBound.                                   *)
(***************************************************************************)
DocKey == "lt:r:g1"

\* Session 1 tails DocKey: its start call resolved and no frame has arrived.
StreamingInit ==
    /\ now = 0
    /\ pc = [s \in Sessions |-> IF s = 1 THEN "streaming" ELSE "idle"]
    /\ uri = [s \in Sessions |-> IF s = 1 THEN DocKey ELSE ""]
    /\ registry = [k \in Keys |-> IF k = DocKey THEN 1 ELSE None]
    /\ startTime = [s \in Sessions |-> IF s = 1 THEN 0 ELSE Undefined]
    /\ endTime = [s \in Sessions |-> Undefined]
    /\ aborted = [s \in Sessions |-> FALSE]
    /\ startCount = [s \in Sessions |-> IF s = 1 THEN 1 ELSE 0]
    /\ stopCount = [s \in Sessions |-> 0]
    /\ timerOn = [s \in Sessions |-> s = 1]
    /\ tabCallback = [s \in Sessions |-> s = 1]
    /\ dialog = [s \in Sessions |-> IF s = 1 THEN "shown" ELSE "none"]
    /\ tabs = [k \in Keys |-> IF k = DocKey THEN 1 ELSE 0]
    /\ docOpen = [k \in Keys |-> k = DocKey]
    /\ docText = [k \in Keys |-> <<>>]
    /\ startOutcome = [s \in Sessions |-> IF s = 1 THEN "resolved" ELSE "none"]
    /\ duplicate = [s \in Sessions |-> FALSE]
    /\ sawNoTab = [s \in Sessions |-> FALSE]
    /\ firstEndTime = [s \in Sessions |-> Undefined]
    /\ e2e = 0
    /\ regLog = <<>>
    /\ configuration = [s \in Sessions |-> <<>>]
    /\ caught = [s \in Sessions |-> FALSE]
    /\ queue = <<>>
    /\ editing = <<>>
    /\ command = [s \in Sessions |-> <<>>]
    /\ submenu = NewSubmenu
    /\ uriRegistry = NewUriRegistry

DocInit ==
    /\ StreamingInit
    /\ liveTailMaxEvents \in 1..MaxLinesBound
    /\ views = [v \in Views |-> HiddenView]

\* History: e2e counts the frames received while they are, one for one,
\* the frames of E2EStream; any other frame sets it to -1 for good.
e2eAfter(frame) ==
    IF e2e >= 0 /\ e2e < Len(E2EStream) /\ frame = E2EStream[e2e + 1]
    THEN e2e + 1
    ELSE -1

DocReceiveFrame(frame) ==
    /\ pc[1] = "streaming"
    /\ ~aborted[1]
    /\ Commit(handleFrame(Cur, 1, frame))
    /\ views' \in ViewsAfterFrame(views, docText[uri[1]],
                                  handleFrame(Cur, 1, frame).docText[uri[1]], frame)
    /\ e2e' = e2eAfter(frame)
    /\ UNCHANGED <<now, liveTailMaxEvents, regLog, configuration, caught, queue,
                   editing, command, submenu, uriRegistry>>

DocNext ==
    \/ \E frame \in Frames : DocReceiveFrame(frame)
    \/ StreamTerminates(1)

DocSpec == DocInit /\ [][DocNext]_vars

\* C1: after every applied batch the buffer holds at most maxLines lines
\* (counted as line terminators, which is one less than the document's
\* lineCount).  The code does not keep this: see C1_Counterexample.
C1_Counterexample ==
    \A k \in Keys : CountNL(docText[k]) <= liveTailMaxEvents

\* C5: with a line limit of 1, once the stream sessionStart, update(m1),
\* update(m2), update(m3) has been processed, the buffer is exactly the
\* formatted m3.
C5_EndToEndEviction ==
    (e2e = Len(E2EStream) /\ liveTailMaxEvents = 1) =>
        docText[DocKey] = formatLogEvent(Event3)

\* The end-to-end stream was processed in full and then ended.
C5_Witness ==
    /\ e2e = Len(E2EStream)
    /\ liveTailMaxEvents = 1
    /\ pc[1] = "returned"
    /\ CountNL(docText[DocKey]) = 1

(***************************************************************************)
(* The session specification: the methods of one LiveTailSession object    *)
(* called in any order while the clock advances.                           *)
(***************************************************************************)
\* Every session object has been constructed from a configuration, and
\* nothing else has happened.
ConstructedInit ==
    /\ now = 0
    /\ liveTailMaxEvents = MaxLinesBound
    /\ pc = [s \in Sessions |-> "idle"]
    /\ uri \in [Sessions -> Keys]
    /\ registry = [k \in Keys |-> None]
    /\ startTime = [s \in Sessions |-> Undefined]
    /\ endTime = [s \in Sessions |-> Undefined]
    /\ aborted = [s \in Sessions |-> FALSE]
    /\ startCount = [s \in Sessions |-> 0]
    /\ stopCount = [s \in Sessions |-> 0]
    /\ timerOn = [s \in Sessions |-> FALSE]
    /\ tabCallback = [s \in Sessions |-> FALSE]
    /\ dialog = [s \in Sessions |-> "none"]
    /\ tabs = [k \in Keys |-> 0]
    /\ docOpen = [k \in Keys |-> FALSE]
    /\ docText = [k \in Keys |-> <<>>]
    /\ startOutcome = [s \in Sessions |-> "none"]
    /\ duplicate = [s \in Sessions |-> FALSE]
    /\ sawNoTab = [s \in Sessions |-> FALSE]
    /\ firstEndTime = [s \in Sessions |-> Undefined]
    /\ e2e = 0
    /\ regLog = <<>>
    /\ configuration = [s \in Sessions |-> <<>>]
    /\ caught = [s \in Sessions |-> FALSE]
    /\ queue = <<>>
    /\ editing = <<>>
    /\ command = [s \in Sessions |-> <<>>]
    /\ submenu = NewSubmenu
    /\ uriRegistry = NewUriRegistry
    /\ views = [v \in Views |-> HiddenView]

SessionStarts(s) ==
    /\ startCount[s] + stopCount[s] < MaxOps
    /\ Commit(startLiveTailSession(Cur, s, now))
    /\ Frame1

SessionStops(s) ==
    /\ startCount[s] + stopCount[s] < MaxOps
    /\ Commit(stopLiveTailSession(Cur, s, now))
    /\ Frame1

SessionNext ==
    \/ SessionStarts(1)
    \/ SessionStops(1)
    \/ Tick

SessionSpec == ConstructedInit /\ [][SessionNext]_vars

\* C4: a call of stopLiveTailSession on a session that was already stopped
\* (and not started again since) leaves endTime as the earlier call set it.
\* The code does not keep this: see C4_Counterexample.
C4_Counterexample ==
    [][\A s \in Sessions :
          (/\ stopCount'[s] = stopCount[s] + 1
           /\ stopCount[s] >= 1
           /\ endTime[s] # Undefined) => endTime'[s] = endTime[s]]_vars

(***************************************************************************)
(* The registry specification: the methods of LiveTailSessionRegistry      *)
(* called in any order on constructed sessions; regLog records each call.  *)
(***************************************************************************)
Register(s) ==
    /\ Len(regLog) < MaxOps
    /\ Commit(registerLiveTailSession(Cur, s))
    /\ regLog' = Append(regLog,
           [op |-> "register", sess |-> s, key |-> uri[s],
            threw |-> registerThrows(Cur, s),
            post |-> registerLiveTailSession(Cur, s).registry[uri[s]]])
    /\ UNCHANGED <<now, liveTailMaxEvents, e2e, views, configuration,
                   caught, queue, editing, command, submenu, uriRegistry>>

Remove(k) ==
    /\ Len(regLog) < MaxOps
    /\ Commit(removeLiveTailSessionFromRegistry(Cur, k))
    /\ regLog' = Append(regLog,
           [op |-> "remove", sess |-> None, key |-> k, threw |-> FALSE,
            post |-> removeLiveTailSessionFromRegistry(Cur, k).registry[k]])
    /\ UNCHANGED <<now, liveTailMaxEvents, e2e, views, configuration,
                   caught, queue, editing, command, submenu, uriRegistry>>

\* getLiveTailSessionFromUri and doesRegistryContainLiveTailSession are
\* called for key k: the log keeps what they answered and what the registry
\* maps k to afterwards.
Lookup(k) ==
    /\ Len(regLog) < MaxOps
    /\ Commit(Cur)
    /\ regLog' = Append(regLog,
           [op |-> "lookup", sess |-> getLiveTailSessionFromUri(Cur, k), key |-> k,
            threw |-> lookupThrows(Cur, k),
            contains |-> doesRegistryContainLiveTailSession(Cur, k),
            post |-> registry[k]])
    /\ UNCHANGED <<now, liveTailMaxEvents, e2e, views, configuration,
                   caught, queue, editing, command, submenu, uriRegistry>>

RegistryNext ==
    \/ \E s \in Sessions : Register(s)
    \/ \E k \in Keys : Remove(k)
    \/ \E k \in Keys : Lookup(k)

RegistrySpec == ConstructedInit /\ [][RegistryNext]_vars

\* The session that holds key k after the first j logged calls, by the
\* rule "first to register holds the key until it is removed".
RECURSIVE Holder(_, _, _)
Holder(log, j, k) ==
    IF j = 0 THEN None
    ELSE LET e == log[j]
             h == Holder(log, j - 1, k)
         IN  IF e.key # k THEN h
             ELSE IF e.op = "remove" THEN None
             ELSE IF e.op = "lookup" THEN h
             ELSE IF h = None THEN e.sess
             ELSE h

\* C3: registerLiveTailSession throws the duplicate error and leaves the
\* holder registered exactly when a session registered earlier under the
\* same key has not been removed since; otherwise it succeeds and the new
\* session holds the key.
C3_AtMostOnePerKey ==
    \A j \in 1..Len(regLog) :
        regLog[j].op = "register" =>
            LET h == Holder(regLog, j - 1, regLog[j].key)
            IN  /\ regLog[j].threw <=> (h # None)
                /\ regLog[j].post = IF h = None THEN regLog[j].sess ELSE h

\* A first session registers, a second with an equal key is refused, the
\* first is removed, and the second then registers.
C3_Witness ==
    /\ Len(regLog) >= 4
    /\ regLog[1].op = "register"
    /\ ~regLog[1].threw
    /\ regLog[2].op = "register"
    /\ regLog[2].sess # regLog[1].sess
    /\ regLog[2].key = regLog[1].key
    /\ regLog[2].threw
    /\ regLog[3].op = "remove"
    /\ regLog[3].key = regLog[1].key
    /\ regLog[4].op = "register"
    /\ regLog[4].sess = regLog[2].sess
    /\ ~regLog[4].threw
    /\ registry[regLog[4].key] = regLog[4].sess

(***************************************************************************)
(* The coordinator under fairness: what the event loop guarantees is that  *)
(* a resolved promise's continuation runs (the document opened or shown,   *)
(* the start call settled).  The user and the remote end are not obliged   *)
(* to do anything.                                                         *)
(***************************************************************************)
Continuation(i) ==
    \/ DocumentOpened(i)
    \/ DocumentShown(i)
    \/ DocumentShownAgain(i)
    \/ StartResolves(i)
    \/ StartResolvesWithoutStream(i)
    \/ StartRejects(i)

FairSpec == Init /\ [][Next]_vars /\ \A i \in Sessions : WF_vars(Continuation(i))

\* The frame sequence of s ended while nothing had stopped s.
EndedOnItsOwn(s) ==
    pc[s] = "returned" /\ startOutcome[s] = "resolved" /\ stopCount[s] = 0

\* C11: when the frame sequence of a session ends on its own, the session
\* is eventually stopped, out of the registry and without a scheduled
\* timer.  The code does not keep this: see C11_Counterexample.
C11_Counterexample ==
    \A s \in Sessions :
        EndedOnItsOwn(s) ~>
            (stopCount[s] >= 1 /\ registry[uri[s]] # s /\ ~timerOn[s])

\* C12: the step that handles "Stop Tailing" for a running session leaves
\* that session stopped (stopLiveTailSession called on it), its key out of
\* the registry and its timer not scheduled.
C12_ExplicitStop ==
    [][\A i \in Sessions :
          (StopTailing(i) /\ Live(i)) =>
              /\ stopCount'[i] = 1
              /\ aborted'[i]
              /\ registry'[uri[i]] = None
              /\ ~timerOn'[i]]_vars

\* A running session whose tab is still open was stopped from its dialog.
C12_Witness ==
    \E i \in Sessions :
        /\ dialog[i] = "closed"
        /\ startOutcome[i] = "resolved"
        /\ stopCount[i] = 1
        /\ ~sawNoTab[i]
        /\ tabs[uri[i]] > 0
        /\ registry[uri[i]] = None
        /\ \A j \in Sessions : j # i => pc[j] = "idle"

\* C13: whatever teardown triggers fire for a session, and in whatever
\* order, stopLiveTailSession is called on it at most once.
C13_NoDoubleRelease ==
    \A s \in Sessions : stopCount[s] <= 1

\* All three triggers fired for one session: "Stop Tailing" was pressed,
\* its listener saw no tab for its document, and its stream ended.
C13_Witness ==
    \E s \in Sessions :
        /\ dialog[s] = "closed"
        /\ sawNoTab[s]
        /\ pc[s] = "returned"
        /\ startOutcome[s] = "resolved"
        /\ stopCount[s] = 1

\* C14: a "Stop Tailing" press whose key an earlier trigger already removed
\* from the registry runs closeSession without an error.  The code does not
\* keep this: see C14_Counterexample.
C14_Counterexample ==
    [][\A i \in Sessions :
          StopTailing(i) => ~closeSessionThrows(Cur, uri[i])]_vars

\* C15: receiving a sessionStart frame, or a frame that is neither
\* sessionStart nor sessionUpdate, changes no document and leaves the
\* session consuming its stream.
C15_NonUpdateFramesHarmless ==
    [][\A frame \in {SessionStart, UnknownFrame} :
          DocReceiveFrame(frame) =>
              (docText' = docText /\ pc'[1] = "streaming" /\ ~aborted'[1])]_vars

\* A sessionStart frame was received and the update frame that followed it
\* was processed.
C15_Witness ==
    /\ e2e = 2
    /\ pc[1] = "streaming"
    /\ docText[DocKey] = formatLogEvent(Event1)

\* A record lacking a timestamp or a message.
Malformed(logEvent) == logEvent.timestamp = <<>> \/ logEvent.message = <<>>

\* C16: a sessionUpdate batch made only of malformed records leaves every
\* document exactly as it was.  The code does not keep this: see
\* C16_Counterexample.
C16_Counterexample ==
    [][\A batch \in Batches :
          (/\ \A j \in 1..Len(batch) : Malformed(batch[j])
           /\ DocReceiveFrame(SessionUpdate(batch))) => docText' = docText]_vars

(***************************************************************************)
(* The view specification: the pipeline of DocSpec with the editors that   *)
(* show the document, which the user scrolls, hides and shows.             *)
(***************************************************************************)
ViewFrames ==
    {SessionStart, SessionUpdate(<<Event1>>), SessionUpdate(<<Event1, Event2>>),
     SessionUpdate(<<EventNoMessage>>)}

ViewInit ==
    /\ StreamingInit
    /\ liveTailMaxEvents = 2
    /\ views = [v \in Views |-> [HiddenView EXCEPT !.visible = TRUE]]

ViewFrame == UNCHANGED <<now, liveTailMaxEvents, pc, uri, registry, startTime, endTime,
                         aborted, startCount, stopCount, timerOn, tabCallback, dialog,
                         tabs, docOpen, docText, startOutcome, duplicate, sawNoTab,
                         firstEndTime, e2e, regLog, configuration, caught, queue,
                         editing, command, submenu, uriRegistry>>

\* The user scrolls an editor to any range of the document.
UserScrolls(v) ==
    /\ views[v].visible
    /\ \E t \in 0..(lineCount(docText[DocKey]) - 1) :
           views' = [views EXCEPT ![v].top = t,
                                  ![v].bottom = bottomLine(docText[DocKey], t)]
    /\ ViewFrame

\* The user brings another editor to the front of the group, or this one back.
ToggleView(v) ==
    /\ views' = [views EXCEPT ![v].visible = ~@]
    /\ ViewFrame

ViewNext ==
    \/ \E frame \in ViewFrames : DocReceiveFrame(frame)
    \/ \E v \in Views : UserScrolls(v)
    \/ \E v \in Views : ToggleView(v)

ViewSpec == ViewInit /\ [][ViewNext]_vars

\* The step is one in which session 1 handled the frame, as far as the
\* document and the views show.
FrameHandled(frame) ==
    /\ pc[1] = "streaming"
    /\ docText'[DocKey] = handleFrame(Cur, 1, frame).docText[DocKey]
    /\ \A v \in Views :
           views'[v] \in ViewOutcomes(views, docText[DocKey], docText'[DocKey],
                                      frame, v)

DisplayLine(logEvent) ==
    LET sod == logEvent.timestamp[1].s % 86400
        text == TwoDigits(sod \div 3600) \o <<":">>
                \o TwoDigits((sod % 3600) \div 60) \o <<":">>
                \o TwoDigits(sod % 60) \o <<TAB>> \o logEvent.message[1]
    IN  IF text[Len(text)] = NL THEN text ELSE text \o <<NL>>

\* C18: a record that has a timestamp and a message is written as exactly its
\* display line (here: as the only record of an update on an empty document),
\* and a record missing either field is written as nothing.  The code does
\* not keep this for the timestamp 0: see C18_Counterexample.
C18_Counterexample ==
    [][\A logEvent \in LogEvents :
          (/\ docText[DocKey] = <<>>
           /\ DocReceiveFrame(SessionUpdate(<<logEvent>>)))
          => docText'[DocKey] = IF Malformed(logEvent) THEN <<>>
                                ELSE DisplayLine(logEvent)]_vars

(***************************************************************************)
(* The coordinator under a clock: every coordinator operation, with time   *)
(* passing between any two of them.                                        *)
(***************************************************************************)
TimedNext ==
    \/ Next
    \/ Tick

TimedSpec == Init /\ [][TimedNext]_vars

\* What getLiveTailSessionDuration returns for session s when called now.
Duration(s) == getLiveTailSessionDuration(Cur, s, now)

\* C19: while a session is running (started, never stopped) its duration
\* never decreases from one step to the next, and once a session has been
\* stopped its duration is the same at every later step.  The code does not
\* keep the second half: see C19_Counterexample.
C19_Counterexample ==
    [][\A s \in Sessions :
          /\ (startCount[s] >= 1 /\ stopCount[s] = 0) => Duration(s)' >= Duration(s)
          /\ stopCount[s] >= 1 => Duration(s)' = Duration(s)]_vars

(***************************************************************************)
(* Key derivation: createLiveTailURIFromArgs and uriToKey.  Strings are    *)
(* sequences of characters; an optional field is <<>> or <<value>>.        *)
(***************************************************************************)
MaxRegions == 2

CLOUDWATCH_LOGS_LT_SCHEME == <<"l", "t">>

Regions == {<<"r", Digits[n + 1]>> : n \in 1..MaxRegions}
LogGroupNames == {<<"g">>}
LogStreamFilters ==
    {<<>>,
     <<[type |-> ALL, filter |-> <<>>]>>,
     <<[type |-> PREFIX, filter |-> <<<<>>>>]>>,
     <<[type |-> PREFIX, filter |-> <<<<"p">>>>]>>,
     <<[type |-> SPECIFIC, filter |-> <<<<"p">>>>]>>}
FilterPatterns ==
    {<<>>,
     <<<<>>>>,
     <<<<"x">>>>,
     <<<<"a", "l", "l", ":", "x">>>>,
     <<<<"p", "r", "e", "f", "i", "x", ":", "p">>>>,
     <<<<"A">>>>,
     <<<<"%", "4", "1">>>>}

\* LiveTailSessionConfiguration
Configurations ==
    [region : Regions, logGroupName : LogGroupNames,
     logStreamFilter : LogStreamFilters, logEventFilterPattern : FilterPatterns]

\* vscode.Uri.parse percent-decodes each component: an escape %41 is the
\* letter A (the only escape the characters of Configurations can spell).
RECURSIVE percentDecode(_)
percentDecode(str) ==
    IF str = <<>> THEN <<>>
    ELSE IF Len(str) >= 3 /\ SubSeq(str, 1, 3) = <<"%", "4", "1">>
         THEN <<"A">> \o percentDecode(SubSeq(str, 4, Len(str)))
         ELSE <<str[1]>> \o percentDecode(Tail(str))

\* Uri.toString percent-encodes the characters of a component that are not
\* unreserved: ':' as %3A, '%' as %25.
RECURSIVE percentEncode(_)
percentEncode(str) ==
    IF str = <<>> THEN <<>>
    ELSE (CASE str[1] = ":" -> <<"%", "3", "A">>
            [] str[1] = "%" -> <<"%", "2", "5">>
            [] OTHER -> <<str[1]>>) \o percentEncode(Tail(str))

\* vscode.Uri.parse of scheme:path (no authority, query or fragment): the
\* scheme is the text before the first ':', the path the decoded rest.
UriParse(uriStr) ==
    LET colon == CHOOSE i \in 1..Len(uriStr) :
                     uriStr[i] = ":" /\ \A j \in 1..(i - 1) : uriStr[j] # ":"
    IN  [scheme |-> SubSeq(uriStr, 1, colon - 1),
         path |-> percentDecode(SubSeq(uriStr, colon + 1, Len(uriStr)))]

createLiveTailURIFromArgs_NoStreamFilter(sessionData) ==
    LET base == CLOUDWATCH_LOGS_LT_SCHEME \o <<":">> \o sessionData.region
                \o <<":">> \o sessionData.logGroupName
    IN  UriParse(IF sessionData.logEventFilterPattern # <<>>
                    /\ sessionData.logEventFilterPattern[1] # <<>>
                 THEN base \o <<":">> \o sessionData.logEventFilterPattern[1]
                 ELSE base)

createLiveTailURIFromArgs(sessionData) ==
    LET base == CLOUDWATCH_LOGS_LT_SCHEME \o <<":">> \o sessionData.region
                \o <<":">> \o sessionData.logGroupName
        withStreamFilter ==
            IF sessionData.logStreamFilter = <<>> THEN base
            ELSE LET logStreamFilter == sessionData.logStreamFilter[1]
                 IN  IF logStreamFilter.type # ALL
                     THEN base \o <<":">> \o logStreamFilter.type
                          \o <<":">> \o logStreamFilter.filter[1]
                     ELSE base \o <<":">> \o logStreamFilter.type
        uriStr ==
            IF sessionData.logEventFilterPattern # <<>>
               /\ sessionData.logEventFilterPattern[1] # <<>>
            THEN withStreamFilter \o <<":">> \o sessionData.logEventFilterPattern[1]
            ELSE withStreamFilter
    IN  UriParse(uriStr)

\* LiveTailSessionRegistry.uriToKey: uri.toString()
uriToKey(u) == u.scheme \o <<":">> \o percentEncode(u.path)

\* new LiveTailSession(c): the session keeps its configuration and its key.
NewLiveTailSession(s, c) ==
    /\ configuration[s] = <<>>
    /\ configuration' = [configuration EXCEPT ![s] = <<c>>]
    /\ uri' = [uri EXCEPT ![s] = uriToKey(createLiveTailURIFromArgs(c))]
    /\ UNCHANGED <<now, liveTailMaxEvents, pc, registry, startTime, endTime, aborted,
                   startCount, stopCount, timerOn, tabCallback, dialog, tabs,
                   docOpen, docText, startOutcome, duplicate, sawNoTab,
                   firstEndTime, e2e, regLog, views, caught, queue, editing,
                   command, submenu, uriRegistry>>

\* Keys are compared between two sessions: the first two are constructed.
KeySessions == {s \in Sessions : s <= 2}

KeyNext == \E s \in KeySessions, c \in Configurations : NewLiveTailSession(s, c)

KeySpec == Init /\ [][KeyNext]_vars

\* What a configuration asks the service for (buildStartLiveTailCommand): the
\* streams it selects and the event filter pattern, an absent stream filter
\* selecting all streams and an empty pattern being no pattern.
StreamSelection(c) ==
    IF \/ c.logStreamFilter = <<>>
       \/ c.logStreamFilter[1].type = ALL
       \/ c.logStreamFilter[1].filter[1] = <<>>
    THEN <<ALL>>
    ELSE <<c.logStreamFilter[1].type, c.logStreamFilter[1].filter[1]>>
EventSelection(c) ==
    IF c.logEventFilterPattern = <<>> THEN <<>> ELSE c.logEventFilterPattern[1]
DifferSemantically(c, d) ==
    \/ c.region # d.region
    \/ c.logGroupName # d.logGroupName
    \/ StreamSelection(c) # StreamSelection(d)
    \/ EventSelection(c) # EventSelection(d)

\* C20: two sessions whose configurations differ semantically in region, log
\* group, stream filter or event filter pattern have different keys.  The
\* code does not keep this: see C20_Counterexample.
C20_Counterexample ==
    \A s, t \in Sessions :
        (/\ configuration[s] # <<>>
         /\ configuration[t] # <<>>
         /\ DifferSemantically(configuration[s][1], configuration[t][1]))
        => uri[s] # uri[t]

\* A session built with stream filter {type: all} and one built with
\* {type: prefix, filter: ''} for the same region, log group and pattern.
AllAndEmptyPrefix(s, t) ==
    /\ configuration[s] # <<>>
    /\ configuration[t] # <<>>
    /\ configuration[s][1].region = configuration[t][1].region
    /\ configuration[s][1].logGroupName = configuration[t][1].logGroupName
    /\ configuration[s][1].logEventFilterPattern
           = configuration[t][1].logEventFilterPattern
    /\ configuration[s][1].logStreamFilter = <<[type |-> ALL, filter |-> <<>>]>>
    /\ configuration[t][1].logStreamFilter = <<[type |-> PREFIX, filter |-> <<<<>>>>]>>

\* C21: for the same region, log group and event filter pattern, stream filter
\* {type: all} and stream filter {type: prefix, filter: ''} derive different keys.
C21_AllAndEmptyPrefixDistinct ==
    \A s, t \in Sessions : AllAndEmptyPrefix(s, t) => uri[s] # uri[t]

C21_Witness ==
    \E s, t \in Sessions :
        /\ AllAndEmptyPrefix(s, t)
        /\ configuration[s][1].logEventFilterPattern = <<<<"x">>>>
        /\ uri[s] = <<"l", "t", ":", "r", "1", "%", "3", "A", "g", "%", "3", "A",
                      "a", "l", "l", "%", "3", "A", "x">>

(***************************************************************************)
(* The pull loop of handleLiveTailResponse, step by step: the transport    *)
(* delivers frames, the for-await loop pulls them one at a time and is     *)
(* suspended while it awaits the edit of an update.                        *)
(***************************************************************************)
MaxQueue == 2

PullFrames ==
    {SessionStart, SessionUpdate(<<Event1>>), SessionUpdate(<<Event1, Event2>>)}

PullInit ==
    /\ StreamingInit
    /\ liveTailMaxEvents = 2
    /\ views = [v \in Views |-> [HiddenView EXCEPT !.visible = TRUE]]

\* The frame is a sessionUpdate with records: its handling awaits
\* updateTextDocumentWithNewLogEvents.
awaitsEdit(frame) ==
    frame.type = "sessionUpdate" /\ Len(formattedLogEvents(frame)) # 0

canPull_NoAwait(pending) == TRUE

\* The loop asks the iterator for the next frame only when the body of the
\* previous iteration has finished, the awaited edit included.
canPull(pending) == pending = <<>>

streamThrew_Rethrown(S, i) == [S EXCEPT !.pc[i] = "threw"]

\* The catch block: console.warn, then handleLiveTailResponse returns and
\* so does tailLogGroup.
streamThrew(S, i) == [S EXCEPT !.pc[i] = "returned"]

LoopFrame ==
    UNCHANGED <<now, liveTailMaxEvents, pc, uri, registry, startTime, endTime,
                aborted, startCount, stopCount, timerOn, tabCallback, dialog,
                tabs, docOpen, docText, startOutcome, duplicate, sawNoTab,
                firstEndTime, e2e, regLog, configuration, caught, command,
                submenu, uriRegistry>>

\* The transport delivers a frame of the call; an aborted call delivers no more.
Deliver(frame) ==
    /\ pc[1] = "streaming"
    /\ ~aborted[1]
    /\ Len(queue) < MaxQueue
    /\ queue' = Append(queue, frame)
    /\ UNCHANGED <<views, editing>>
    /\ LoopFrame

\* One iteration of the loop up to its await, or to its end when the frame
\* needs no edit.  The loop does not look at the abort signal: it handles
\* whatever the iterator yields.
Pull ==
    /\ pc[1] = "streaming"
    /\ canPull(editing)
    /\ queue # <<>>
    /\ queue' = Tail(queue)
    /\ IF awaitsEdit(Head(queue))
       THEN /\ editing' = <<[frame |-> Head(queue),
                             editorsToScroll |->
                                 getTextEditorsToScroll(docText[DocKey], views)]>>
            /\ views' = views
       ELSE /\ editing' = editing
            /\ views' = [v \in Views |-> [views[v] EXCEPT !.revealed = -1]]
    /\ LoopFrame

EditOutcomes(vs, editorsToScroll, text2, v) ==
    IF v \in editorsToScroll
    THEN revealRange(text2, afterEdit(text2, vs[v]), scrollTextEditorToBottom(text2))
    ELSE {afterEdit(text2, vs[v])}

\* The awaited edit is applied, the chosen editors are scrolled and the
\* iteration ends.
EditApplied ==
    /\ editing # <<>>
    /\ LET text2 == handleFrame(Cur, 1, editing[1].frame).docText[DocKey]
       IN  /\ Commit([Cur EXCEPT !.docText[DocKey] = text2])
           /\ views' \in eachView([v \in Views |->
                            EditOutcomes(views, editing[1].editorsToScroll, text2, v)],
                                  MaxViews)
    /\ editing' = <<>>
    /\ UNCHANGED <<now, liveTailMaxEvents, e2e, regLog, configuration, caught, queue,
                   command, submenu, uriRegistry>>

\* The iterator reports the end of the sequence (remote close).
StreamEnds(i) ==
    /\ queue = <<>>
    /\ editing = <<>>
    /\ StreamTerminates(i)

\* Pulling the next frame throws: the call was aborted, the connection
\* failed, the service reported an exception.
StreamThrows(i) ==
    /\ pc[i] = "streaming"
    /\ editing = <<>>
    /\ Commit(streamThrew(Cur, i))
    /\ caught' = [caught EXCEPT ![i] = TRUE]
    /\ UNCHANGED <<now, liveTailMaxEvents, e2e, regLog, views, configuration,
                   queue, editing, command, submenu, uriRegistry>>

PullNext ==
    \/ \E frame \in PullFrames : Deliver(frame)
    \/ Pull
    \/ EditApplied
    \/ StreamEnds(1)
    \/ StreamThrows(1)
    \/ StopTailing(1)

PullSpec == PullInit /\ [][PullNext]_vars

\* C22: when iterating the frame sequence throws, handleLiveTailResponse
\* returns normally, so that tailLogGroup returns and does not throw, and from
\* then on the loop pulls no frame and applies no edit.
C22_SwallowAndStop ==
    [][\A i \in Sessions :
          /\ StreamThrows(i) => pc'[i] = "returned"
          /\ caught[i] => (/\ pc'[i] = "returned"
                           /\ queue' = queue
                           /\ editing' = <<>>
                           /\ docText' = docText)]_vars

C22_Witness ==
    /\ caught[1]
    /\ pc[1] = "returned"
    /\ ~aborted[1]
    /\ docText[DocKey] = formatLogEvent(Event1)
    /\ queue # <<>>

\* C23: a lookup of a key answers with the session that holds the key (the
\* one registered last under it and not removed since) when there is one,
\* and throws when there is none; either way the registry maps the key to
\* what it did before, and doesRegistryContainLiveTailSession answers true
\* exactly when the lookup does not throw.
C23_RegistryLookup ==
    \A j \in 1..Len(regLog) :
        regLog[j].op = "lookup" =>
            LET h == Holder(regLog, j - 1, regLog[j].key)
            IN  /\ regLog[j].threw <=> (h = None)
                /\ ~regLog[j].threw => regLog[j].sess = h
                /\ regLog[j].post = h
                /\ regLog[j].contains <=> ~regLog[j].threw

\* A lookup that throws, a registration, a lookup that answers, a removal
\* would follow.
C23_Witness ==
    /\ Len(regLog) >= 4
    /\ regLog[1].op = "lookup"
    /\ regLog[1].threw
    /\ regLog[2].op = "register"
    /\ regLog[2].key = regLog[1].key
    /\ regLog[3].op = "lookup"
    /\ regLog[3].key = regLog[1].key
    /\ regLog[3].sess = regLog[2].sess
    /\ regLog[4].op = "remove"
    /\ regLog[4].key = regLog[1].key
    /\ registry[regLog[1].key] = None

\* C24: the loop takes the frames in delivery order and one at a time.  A
\* step that pulls a frame takes the oldest delivered frame, happens only when
\* no edit is awaited, and chooses the editors to scroll from the document as
\* the frames before it left it; the step that ends an awaited edit writes
\* that frame's batch into that document and pulls nothing.
C24_InOrderNonOverlapping ==
    [][/\ Len(queue') < Len(queue) =>
              /\ editing = <<>>
              /\ queue' = Tail(queue)
              /\ IF awaitsEdit(Head(queue))
                 THEN editing' =
                          <<[frame |-> Head(queue),
                             editorsToScroll |->
                                 {v \in Views :
                                     /\ views[v].visible
                                     /\ views[v].top <= CountNL(docText[DocKey])
                                     /\ CountNL(docText[DocKey]) <= views[v].bottom}]>>
                 ELSE editing' = <<>> /\ docText' = docText
       /\ (editing # <<>> /\ docText' # docText) =>
              /\ queue' = queue
              /\ editing' = <<>>
              /\ docText'[DocKey] =
                     updateTextDocumentWithNewLogEvents(
                         formattedLogEvents(editing[1].frame), docText[DocKey],
                         liveTailMaxEvents)]_vars

\* The edit of a second update is awaited, chosen editors included, on the
\* document the first update left, while a third frame waits.
C24_Witness ==
    /\ editing # <<>>
    /\ editing[1].editorsToScroll # {}
    /\ docText[DocKey] = formatLogEvent(Event1)
    /\ queue # <<>>

\* C25: once stopLiveTailSession has been called on the session, the loop
\* pulls no further frame, and the only edit that may still complete is one
\* that was awaited when stop was called.  The code does not keep this: see
\* C25_Counterexample.
C25_Counterexample ==
    [][stopCount[1] >= 1 =>
           /\ Len(queue') >= Len(queue)
           /\ editing = <<>> => editing' = <<>>]_vars

(***************************************************************************)
(* The command of the streaming call.                                      *)
(***************************************************************************)
\* JavaScript truthiness of an optional string: defined and not ''.
Truthy(opt) == opt # <<>> /\ opt[1] # <<>>

\* The fields the constructor of LiveTailSession assigns from its
\* configuration.  logEventFilterPattern is declared and never assigned: it
\* stays undefined.
LiveTailSessionFields(c) ==
    [logGroupName |-> c.logGroupName,
     logStreamFilter |-> c.logStreamFilter,
     logEventFilterPattern |-> <<>>]

\* The input of the StartLiveTailCommand; an absent member is <<>>, a list
\* member that is present is <<list>>.
buildStartLiveTailCommand(session) ==
    LET logStreamNamePrefix ==
            IF session.logStreamFilter # <<>>
               /\ session.logStreamFilter[1].type = PREFIX
            THEN session.logStreamFilter[1].filter ELSE <<>>
        logStreamName ==
            IF session.logStreamFilter # <<>>
               /\ session.logStreamFilter[1].type = SPECIFIC
            THEN session.logStreamFilter[1].filter ELSE <<>>
    IN  [logGroupIdentifiers |-> <<session.logGroupName>>,
         logStreamNamePrefixes |->
             IF Truthy(logStreamNamePrefix) THEN <<<<logStreamNamePrefix[1]>>>> ELSE <<>>,
         logStreamNames |->
             IF Truthy(logStreamName) THEN <<<<logStreamName[1]>>>> ELSE <<>>,
         logEventFilterPattern |->
             IF Truthy(session.logEventFilterPattern)
             THEN session.logEventFilterPattern ELSE <<>>]

\* startLiveTailSession builds the command of the session and sends it.
SendCommand(s) ==
    /\ configuration[s] # <<>>
    /\ command[s] = <<>>
    /\ command' = [command EXCEPT ![s] =
           <<buildStartLiveTailCommand(LiveTailSessionFields(configuration[s][1]))>>]
    /\ UNCHANGED <<now, liveTailMaxEvents, pc, uri, registry, startTime, endTime,
                   aborted, startCount, stopCount, timerOn, tabCallback, dialog,
                   tabs, docOpen, docText, startOutcome, duplicate, sawNoTab,
                   firstEndTime, e2e, regLog, views, configuration, caught, queue,
                   editing, submenu, uriRegistry>>

CommandNext ==
    \/ \E s \in Sessions, c \in Configurations : NewLiveTailSession(s, c)
    \/ \E s \in Sessions : SendCommand(s)

CommandSpec == Init /\ [][CommandNext]_vars

\* The stream filter of the command is the configured one: a prefix list
\* only for type prefix, a name list only for type specific.
StreamFilterCarried(c, cmd) ==
    LET filter == c.logStreamFilter
    IN  /\ cmd.logStreamNamePrefixes # <<>> =>
               /\ filter # <<>>
               /\ filter[1].type = PREFIX
               /\ cmd.logStreamNamePrefixes = <<<<filter[1].filter[1]>>>>
        /\ cmd.logStreamNames # <<>> =>
               /\ filter # <<>>
               /\ filter[1].type = SPECIFIC
               /\ cmd.logStreamNames = <<<<filter[1].filter[1]>>>>
        /\ (filter # <<>> /\ filter[1].type = PREFIX /\ filter[1].filter[1] # <<>>)
               => cmd.logStreamNamePrefixes # <<>>
        /\ (filter # <<>> /\ filter[1].type = SPECIFIC /\ filter[1].filter[1] # <<>>)
               => cmd.logStreamNames # <<>>

\* C26: the command a session sends carries the log group of its
\* configuration, its stream filter, and its event filter pattern whenever
\* that is not empty.  The code does not keep this: see C26_Counterexample.
C26_Counterexample ==
    \A s \in Sessions :
        command[s] # <<>> =>
            LET c == configuration[s][1]
                cmd == command[s][1]
            IN  /\ cmd.logGroupIdentifiers = <<c.logGroupName>>
                /\ StreamFilterCarried(c, cmd)
                /\ Truthy(c.logEventFilterPattern)
                       => cmd.logEventFilterPattern = c.logEventFilterPattern

(***************************************************************************)
(* The pipeline of one session whose tabs the user may split and close:    *)
(* the tab listener clears the document when the last tab is closed.       *)
(***************************************************************************)
ClearNext ==
    \/ \E frame \in Frames : DocReceiveFrame(frame)
    \/ CloseTab(DocKey)
    \/ SplitTab(DocKey)

ClearSpec == DocInit /\ [][ClearNext]_vars

\* C27: whatever the document holds, it is empty once clearDocument has run
\* on it (here: run by the tab listener when the last tab is closed).
C27_ClearDocumentEmpties ==
    [][(tabs[DocKey] = 1 /\ CloseTab(DocKey)) => docText'[DocKey] = <<>>]_vars

C27_Witness ==
    /\ sawNoTab[1]
    /\ e2e = 3
    /\ liveTailMaxEvents = MaxLinesBound
    /\ docText[DocKey] = <<>>

(***************************************************************************)
(* LogStreamFilterSubmenu.promptUser: the menu, the prefix box and the     *)
(* log stream selector, driven by the user.                                *)
(***************************************************************************)
SubmenuFrame ==
    UNCHANGED <<now, liveTailMaxEvents, pc, uri, registry, startTime, endTime,
                aborted, startCount, stopCount, timerOn, tabCallback, dialog,
                tabs, docOpen, docText, startOutcome, duplicate, sawNoTab,
                firstEndTime, e2e, regLog, views, configuration, caught, queue,
                editing, command, uriRegistry>>

\* The names the selector lists: logStreamName of the streams the service
\* describes, each a string of at least one character.
LogStreamNames == {<<"p">>, <<"q", "1">>}

\* What the menu prompt resolves to: one of its three options, or <<>>
\* when the user leaves the menu without choosing.
MenuResponses == {<<ALL>>, <<SPECIFIC>>, <<PREFIX>>, <<>>}

\* case MENU of promptUser once the menu prompt resolved to resp: any
\* answer other than the three options falls out of the switch, and the
\* loop shows the menu again.
menuAnswered(m, resp) ==
    IF resp = <<PREFIX>> THEN [m EXCEPT !.currentState = PREFIX]
    ELSE IF resp = <<SPECIFIC>> THEN [m EXCEPT !.currentState = SPECIFIC]
    ELSE IF resp = <<ALL>>
         THEN [m EXCEPT !.response = <<[type |-> ALL, filter |-> <<>>]>>]
    ELSE m

\* case MENU of promptUser.
PromptMenu(resp) ==
    /\ submenu.currentState = MENU
    /\ submenu.response = <<>>
    /\ submenu' = menuAnswered([submenu EXCEPT !.menuAnswer = <<resp>>], resp)
    /\ SubmenuFrame

\* The user types in the prefix box: the box runs validateInput on the
\* value and shows its message.
TypePrefix(input) ==
    /\ submenu.currentState = PREFIX
    /\ submenu.response = <<>>
    /\ submenu' = [submenu EXCEPT !.value = input,
                                  !.validationMessage = validateLogStreamPrefix(input)]
    /\ SubmenuFrame

\* The prefix box resolves to its value once the user accepts it while it
\* shows no validation message.
inputBoxResolves(box) == box.validationMessage = <<>>

\* case PREFIX of promptUser, the box resolving to a value.
AcceptPrefix ==
    /\ submenu.currentState = PREFIX
    /\ submenu.response = <<>>
    /\ inputBoxResolves(submenu)
    /\ submenu' = [submenu EXCEPT
                       !.response = <<[type |-> PREFIX, filter |-> <<submenu.value>>]>>]
    /\ SubmenuFrame

\* case PREFIX or SPECIFIC of promptUser, the prompt resolving to no valid
\* response (the user went back): the submenu shows its menu again.
BackToMenu ==
    /\ submenu.currentState \in {PREFIX, SPECIFIC}
    /\ submenu.response = <<>>
    /\ submenu' = [submenu EXCEPT !.currentState = MENU, !.value = <<>>,
                                  !.validationMessage = <<>>]
    /\ SubmenuFrame

\* case SPECIFIC of promptUser, the user picking one of the listed streams.
SelectLogStream(name) ==
    /\ submenu.currentState = SPECIFIC
    /\ submenu.response = <<>>
    /\ submenu' = [submenu EXCEPT
                       !.response = <<[type |-> SPECIFIC, filter |-> <<name>>]>>]
    /\ SubmenuFrame

\* The wizard constructs a submenu for its next run.
NewPrompt ==
    /\ submenu.response # <<>>
    /\ submenu' = NewSubmenu
    /\ SubmenuFrame

SubmenuNext ==
    \/ \E resp \in MenuResponses : PromptMenu(resp)
    \/ \E input \in PrefixInputs : TypePrefix(input)
    \/ AcceptPrefix
    \/ BackToMenu
    \/ \E name \in LogStreamNames : SelectLogStream(name)
    \/ NewPrompt

SubmenuSpec == Init /\ [][SubmenuNext]_vars

\* The input holds one of the characters the prefix pattern excludes.
HasExcludedCharacter(input) ==
    \E k \in 1..Len(input) : input[k] \in {":", "*"}

\* C28: the prefix box shows a validation message for exactly the inputs
\* that hold ':' or '*' or are longer than 512 characters, and none for any
\* other input.  The code does not keep this: see C28_Counterexample.
C28_Counterexample ==
    submenu.currentState = PREFIX =>
        (submenu.validationMessage # <<>>
             <=> \/ HasExcludedCharacter(submenu.value)
                 \/ Len(submenu.value) > PrefixLengthLimit)

\* C30: every response promptUser returns has a type other than MENU, no
\* filter value when its type is ALL, and a filter value of at least one
\* character when its type is PREFIX or SPECIFIC.  The code does not keep
\* this: see C30_Counterexample.
C30_Counterexample ==
    submenu.response # <<>> =>
        LET resp == submenu.response[1]
        IN  /\ resp.type \in {ALL, PREFIX, SPECIFIC}
            /\ resp.type = ALL => resp.filter = <<>>
            /\ resp.type \in {PREFIX, SPECIFIC} =>
                   /\ resp.filter # <<>>
                   /\ resp.filter[1] # <<>>

(***************************************************************************)
(* Independence of the sessions of the coordinator specification.          *)
(***************************************************************************)
\* Session b holds its key, was not cancelled and its timer runs.
Running(b) ==
    /\ uri[b] \in Keys
    /\ registry[uri[b]] = b
    /\ ~aborted[b]
    /\ timerOn[b]

\* The user stops session a or closes a tab of its document.
StopsOrCloses(a) ==
    \/ StopTailing(a)
    \/ uri[a] \in Keys /\ CloseTab(uri[a])

\* The step leaves session b registered, not cancelled, with its timer
\* running and its document as it was.
LeftAlone(b) ==
    /\ registry'[uri[b]] = b
    /\ ~aborted'[b]
    /\ stopCount'[b] = stopCount[b]
    /\ timerOn'[b]
    /\ docText'[uri[b]] = docText[uri[b]]

\* C29: stopping session a, by "Stop Tailing" or by closing a tab of its
\* document, leaves every running session b of another key registered, not
\* cancelled, with its timer running and its document unchanged: a step
\* that does not leave b alone is no stop or close of such a session a.
C29_SessionsIndependent ==
    [][\A b \in Sessions :
           Running(b) =>
               \/ LeftAlone(b)
               \/ \A a \in Sessions : uri[a] # uri[b] => ~StopsOrCloses(a)]_vars

\* Session 2 was stopped; session 1, which registered its key before
\* session 2 began and has another key, still runs and its document holds
\* what it received.
C29_Witness ==
    /\ stopCount[2] >= 1
    /\ uri[1] # uri[2]
    /\ Running(1)
    /\ docText[uri[1]] # <<>>

(***************************************************************************)
(* The trim count of the document mutator.                                 *)
(***************************************************************************)
\* The text is what is left of old after its k oldest lines were removed,
\* followed by the appended lines.
OldestRemoved(old, k, appended, text) ==
    \E cut \in 0..Len(old) :
        /\ cut > 0 => old[cut] = NL
        /\ CountNL(SubSeq(old, 1, cut)) = k
        /\ text = DropFirst(old, cut) \o Concat(appended)

\* C31: an update appends its lines and, when the document's line count plus
\* the number of new lines exceeds maxLines, removes exactly that excess of
\* the oldest lines, and removes no line otherwise.  The code does not keep
\* this: see C31_Counterexample.
C31_Counterexample ==
    [][\A frame \in Frames :
          (/\ formattedLogEvents(frame) # <<>>
           /\ DocReceiveFrame(frame)) =>
              LET old == docText[DocKey]
                  appended == formattedLogEvents(frame)
                  excess == lineCount(old) + Len(appended) - liveTailMaxEvents
              IN  OldestRemoved(old, IF excess > 0 THEN excess ELSE 0, appended,
                                docText'[DocKey])]_vars

(***************************************************************************)
(* Sessions of the coordinator specification are single-use.               *)
(***************************************************************************)
\* C32: startLiveTailSession is called at most once on each session, and a
\* session that was stopped is never started afterwards: its endTime stays
\* set.  The code does not keep this: see C32_Counterexample.
C32_Counterexample ==
    [][\A s \in Sessions :
          /\ startCount'[s] <= 1
          /\ stopCount[s] >= 1 =>
                 /\ startCount'[s] = startCount[s]
                 /\ endTime'[s] # Undefined]_vars

(***************************************************************************)
(* Tab changes that leave a tab of the document open.                      *)
(***************************************************************************)
\* vscode.window.tabGroups.onDidChangeTabs fires in this step.  (Each first
\* conjunct follows from the action after it: a closed tab is one tab less,
\* a split one more, and any other change moves no tab and no invocation.)
TabChange ==
    \/ \E k \in Keys : tabs'[k] < tabs[k] /\ CloseTab(k)
    \/ \E k \in Keys : tabs'[k] > tabs[k] /\ SplitTab(k)
    \/ (tabs' = tabs /\ pc' = pc /\ dialog' = dialog) /\ OtherTabChange
    \/ \E i \in Sessions : DocumentShown(i)
    \/ \E i \in Sessions : DocumentShownAgain(i)

\* The step leaves the registration of the session's key, the session's
\* stop count, its running timer and its document as they were.
Undisturbed(s) ==
    /\ registry'[uri[s]] = registry[uri[s]]
    /\ stopCount'[s] = stopCount[s]
    /\ aborted'[s] = aborted[s]
    /\ timerOn[s] => timerOn'[s]
    /\ docText'[uri[s]] = docText[uri[s]]

\* C33: a tab change after which a tab still shows the document of a
\* session changes nothing for that session: a step that disturbs such a
\* session is no tab change.
C33_OpenTabKeepsSession ==
    [][\A s \in Sessions :
          (uri[s] \in Keys /\ tabs'[uri[s]] > 0) =>
              \/ Undisturbed(s)
              \/ ~TabChange]_vars

\* The tab of a running session that has received lines was split: its
\* listener ran with tabs of the document open.
C33_Witness ==
    \E s \in Sessions :
        /\ Running(s)
        /\ tabCallback[s]
        /\ tabs[uri[s]] = MaxTabs
        /\ docText[uri[s]] # <<>>

(***************************************************************************)
(* Registration under concurrent invocations of tailLogGroup.              *)
(***************************************************************************)
\* C34: whatever the interleaving of tailLogGroup invocations, also for one
\* key, registerLiveTailSession never throws: an invocation that constructed
\* its session throws only after its start call, and the invocations that
\* found their key registered are exactly those on the short-circuit path.
C34_RegistrationRaceFree ==
    \A i \in Sessions :
        uri[i] \in Keys =>
            /\ pc[i] = "threw" => startCount[i] >= 1
            /\ duplicate[i] <=> (pc[i] \in {"reopening", "reshowing", "returned"}
                                 /\ startCount[i] = 0)

\* Two invocations for one key are in flight: the first registered its
\* session and is still preparing its document, the second found the key
\* registered and is on the short-circuit path.
C34_Witness ==
    \E i, j \in Sessions :
        /\ i # j
        /\ uri[i] = uri[j]
        /\ uri[i] \in Keys
        /\ pc[i] \in {"opening", "showing"}
        /\ registry[uri[i]] = i
        /\ duplicate[j]
        /\ pc[j] \in {"reopening", "reshowing"}

(***************************************************************************)
(* The registry and the sessions that were stopped.                        *)
(***************************************************************************)
\* C35: in every state between two handlers, a session the registry holds
\* was never stopped, and a session that was started and never stopped is
\* held by the registry under its own key.
C35_NoDeadSessionRegistered ==
    /\ \A k \in Keys : registry[k] # None => stopCount[registry[k]] = 0
    /\ \A s \in Sessions : Live(s) => (uri[s] \in Keys /\ registry[uri[s]] = s)

\* A key was tailed, closed and tailed again: the registry holds the
\* second, live, session and not the first, stopped, one.
C35_Witness ==
    \E s, t \in Sessions :
        /\ s # t
        /\ uri[s] = uri[t]
        /\ stopCount[s] >= 1
        /\ Live(t)
        /\ registry[uri[t]] = t

(***************************************************************************)
(* Stop triggers of a closed session.                                      *)
(***************************************************************************)
\* C36: the "Stop Tailing" dialog of a session that was closed does nothing
\* to a session started later under the same key: that session is not
\* stopped and stays registered.  The code does not keep this: see
\* C36_Counterexample.
C36_Counterexample ==
    [][\A s, t \in Sessions :
          (/\ s # t
           /\ uri[s] = uri[t]
           /\ stopCount[s] >= 1
           /\ Live(t)
           /\ StopTailing(s)) =>
              /\ stopCount'[t] = stopCount[t]
              /\ ~aborted'[t]
              /\ registry'[uri[t]] = t]_vars

(***************************************************************************)
(* A request for a key that is being tailed.                               *)
(***************************************************************************)
\* C37: no step of an invocation of tailLogGroup that found its key
\* registered changes the document of the key.  The code does not keep
\* this: see C37_Counterexample.
C37_Counterexample ==
    [][\A i \in Sessions :
          (duplicate[i] /\ pc'[i] # pc[i]) =>
              docText'[uri[i]] = docText[uri[i]]]_vars

(***************************************************************************)
(* Leaving the prompts of the submenu.                                     *)
(***************************************************************************)
\* C38: when the menu prompt resolves to none of its three options,
\* promptUser returns; and when the prefix box or the stream selector
\* resolves to no valid response, the submenu is in state MENU.  The code
\* does not keep the first half: see C38_Counterexample.
C38_Counterexample ==
    [][/\ PromptMenu(<<>>) => submenu'.response # <<>>
       /\ BackToMenu => submenu'.currentState = MENU]_vars

(***************************************************************************)
(* The registry variant keyed by Uri object (liveTailSessionRegistry.ts):  *)
(* a Map finds a key by the identity of the object, not by its string.     *)
(***************************************************************************)
UriFrame ==
    UNCHANGED <<now, liveTailMaxEvents, pc, uri, registry, startTime, endTime,
                aborted, startCount, stopCount, timerOn, tabCallback, dialog,
                tabs, docOpen, docText, startOutcome, duplicate, sawNoTab,
                firstEndTime, e2e, regLog, views, configuration, caught, queue,
                editing, command, submenu>>

\* A Uri object: id tells the objects apart, str is what toString() gives.
\* The constructor of a session makes the session's own object; any other
\* caller that has the string of a key makes another object (id 0).
SessionUri(s) == [id |-> s, str |-> uri[s]]
ParsedUri(k) == [id |-> 0, str |-> k]
UriObjects == {SessionUri(s) : s \in Sessions} \cup {ParsedUri(k) : k \in Keys}

\* Map.has, Map.get (None for undefined), Map.set and Map.delete.
mapHas(map, o) == \E e \in map : e.key = o
mapGet(map, o) == IF mapHas(map, o) THEN (CHOOSE e \in map : e.key = o).session
                  ELSE None
mapSet(map, o, s) == {e \in map : e.key # o} \cup {[key |-> o, session |-> s]}
mapDelete(map, o) == {e \in map : e.key # o}

\* registerLiveTailSession(session)
UriRegister(s) ==
    LET o == SessionUri(s)
        threw == mapHas(uriRegistry.map, o)
    IN  /\ uriRegistry' =
               [map |-> IF threw THEN uriRegistry.map
                        ELSE mapSet(uriRegistry.map, o, s),
                last |-> <<[op |-> "register", uri |-> o, threw |-> threw,
                            session |-> s]>>]
        /\ UriFrame

\* getLiveTailSessionFromUri(uri)
UriGet(o) ==
    /\ uriRegistry' =
           [uriRegistry EXCEPT !.last =
               <<[op |-> "get", uri |-> o,
                  threw |-> mapGet(uriRegistry.map, o) = None,
                  session |-> mapGet(uriRegistry.map, o)]>>]
    /\ UriFrame

\* removeLiveTailSessionFromRegistry(uri)
UriRemove(o) ==
    /\ uriRegistry' =
           [map |-> mapDelete(uriRegistry.map, o),
            last |-> <<[op |-> "remove", uri |-> o, threw |-> FALSE,
                        session |-> None]>>]
    /\ UriFrame

UriRegistryNext ==
    \/ \E s \in Sessions : UriRegister(s)
    \/ \E o \in UriObjects : UriGet(o)
    \/ \E o \in UriObjects : UriRemove(o)

UriRegistrySpec == ConstructedInit /\ [][UriRegistryNext]_vars

\* C39: registering a session whose Uri has the string form of a registered
\* session's Uri raises the duplicate error, so the Map never holds two
\* sessions of one string form; and a lookup with a Uri whose string form is
\* that of a registered session's Uri returns that session.  The code does
\* not keep this: see C39_Counterexample.
C39_Counterexample ==
    /\ \A e, f \in uriRegistry.map : e.key.str = f.key.str => e = f
    /\ \A e \in uriRegistry.map :
           (/\ uriRegistry.last # <<>>
            /\ uriRegistry.last[1].op = "get"
            /\ uriRegistry.last[1].uri.str = e.key.str) =>
               /\ ~uriRegistry.last[1].threw
               /\ uriRegistry.last[1].session = e.session

====
